---- MODULE Spec2Model ----
(***************************************************************************)
(* Model of the batch resize pipeline of src-tauri/src/lib.rs:             *)
(* resize_image (sniff, decode, dimension plan, save) and process_images   *)
(* (existence check, enumeration, fan-out of workers, shared result        *)
(* vector under a mutex, join loop, report).                               *)
(***************************************************************************)
EXTENDS Integers, Sequences, FiniteSets, TLC

(***************************************************************************)
(* IEEE-754 binary64 arithmetic, as far as lib.rs:46 and lib.rs:49 use it. *)
(* A positive double is [m |-> 53 bits, most significant first, m[1] = 1,  *)
(* e |-> exponent], its value being (m read as an integer) * 2^e; zero is  *)
(* [m |-> <<>>, e |-> 0].  The operands are u32 values below 2^16 (image   *)
(* dimensions), and every step works on bits and on integers below 2^31,   *)
(* 14 bits at a time, so that the rounding of each operation is exact.     *)
(***************************************************************************)
MantissaBits == 53

F64Zero == [m |-> <<>>, e |-> 0]

\* number of bits of n, for 0 < n < 2^31
BitLen(n) == CHOOSE L \in 1..31 : n \div 2^(L - 1) = 1

\* the last k bits of n
PadBits(n, k) == [i \in 1..k |-> (n \div 2^(k - i)) % 2]

BitsOf(n) == IF n = 0 THEN <<>> ELSE PadBits(n, BitLen(n))

\* the integer a sequence of at most 30 bits stands for
RECURSIVE ValueOf(_)
ValueOf(bits) ==
  IF bits = <<>> THEN 0
  ELSE IF Len(bits) = 1 THEN bits[1]
  ELSE LET h == Len(bits) \div 2
       IN ValueOf(SubSeq(bits, 1, h)) * 2^(Len(bits) - h)
            + ValueOf(SubSeq(bits, h + 1, Len(bits)))

Zeros(k) == [i \in 1..k |-> 0]

\* bits + 1, as a pair <<bits, carry out>>
Increment(bits) ==
  IF \A i \in 1..Len(bits) : bits[i] = 1 THEN <<Zeros(Len(bits)), 1>>
  ELSE LET p == CHOOSE i \in 1..Len(bits) :
                  bits[i] = 0 /\ \A k \in (i + 1)..Len(bits) : bits[k] = 1
       IN <<[i \in 1..Len(bits) |-> IF i < p THEN bits[i] ELSE IF i = p THEN 1 ELSE 0], 0>>

\* round-to-nearest-even of a 53-bit mantissa, given whether the discarded
\* tail is above ("gt"), exactly at ("eq") or below ("lt") half an ulp
RoundNearestEven(m, e, tail) ==
  IF tail = "gt" \/ (tail = "eq" /\ m[MantissaBits] = 1)
  THEN LET r == Increment(m)
       IN IF r[2] = 1 THEN [m |-> <<1>> \o Zeros(MantissaBits - 1), e |-> e + 1]
          ELSE [m |-> r[1], e |-> e]
  ELSE [m |-> m, e |-> e]

\* binary long division: the next k bits of the fraction r/b (r < b < 2^16)
\* and the remainder left after them
RECURSIVE LongDiv(_, _, _)
LongDiv(r, b, k) ==
  IF k <= 14 THEN [bits |-> PadBits((r * 2^k) \div b, k), r |-> (r * 2^k) % b]
  ELSE LET first == LongDiv(r, b, 14)
           rest == LongDiv(first.r, b, k - 14)
       IN [bits |-> first.bits \o rest.bits, r |-> rest.r]

\* `a as f64 / b as f64` for u32 a and b, b > 0: the correctly rounded quotient
F64DivU32(a, b) ==
  IF a = 0 THEN F64Zero
  ELSE LET ibits == BitsOf(a \div b)
           \* fraction bits before the first 1 when the quotient is below 1
           lead == LongDiv(a % b, b, 17).bits
           z == IF ibits # <<>> THEN 0
                ELSE (CHOOSE i \in 1..17 : lead[i] = 1 /\ \A k \in 1..(i - 1) : lead[k] = 0) - 1
           f == z + MantissaBits - Len(ibits)
           d == LongDiv(a % b, b, f)
           m == SubSeq(ibits \o d.bits, z + 1, z + MantissaBits)
           tail == IF 2 * d.r > b THEN "gt" ELSE IF 2 * d.r = b THEN "eq" ELSE "lt"
       IN RoundNearestEven(m, 0 - f, tail)

\* the bits of (m[1..hi] read as an integer) * h + carry, for h < 2^16
RECURSIVE MulBits(_, _, _, _)
MulBits(m, h, hi, carry) ==
  IF hi = 0 THEN BitsOf(carry)
  ELSE LET lo == IF hi > 14 THEN hi - 13 ELSE 1
           t == ValueOf(SubSeq(m, lo, hi)) * h + carry
           n == hi - lo + 1
       IN MulBits(m, h, lo - 1, t \div 2^n) \o PadBits(t % 2^n, n)

\* `x * (h as f64)` for a double x and a u32 h: the correctly rounded product
F64MulU32(x, h) ==
  IF x.m = <<>> \/ h = 0 THEN F64Zero
  ELSE LET p == MulBits(x.m, h, MantissaBits, 0)
           L == Len(p)
           kept == SubSeq(p, 1, MantissaBits)
           guard == IF L > MantissaBits THEN p[MantissaBits + 1] ELSE 0
           sticky == \E i \in (MantissaBits + 2)..L : p[i] = 1
           tail == IF guard = 0 THEN "lt" ELSE IF sticky THEN "gt" ELSE "eq"
       IN RoundNearestEven(kept, x.e + (L - MantissaBits), tail)

\* `x.round() as u32`: f64::round rounds half away from zero.  The values
\* this model produces stay below 2^31, where the cast does not saturate.
F64RoundAsU32(x) ==
  IF x.m = <<>> THEN 0
  ELSE LET f == 0 - x.e
       IN IF f > MantissaBits THEN 0
          ELSE IF f = MantissaBits THEN 1
          ELSE IF f <= 0 THEN ValueOf(x.m \o Zeros(0 - f))
          ELSE ValueOf(SubSeq(x.m, 1, MantissaBits - f)) + x.m[MantissaBits - f + 1]

(***************************************************************************)
(* Option<u32>: None is the empty tuple, Some(v) the tuple <<v>>.          *)
(***************************************************************************)
None == <<>>

Some(v) == <<v>>

\* a variant of UnwrapOr: unwrap_or_default, an absent value becomes 0
UnwrapOrZero(o, d) == IF o = None THEN 0 ELSE o[1]

UnwrapOr(o, d) == IF o = None THEN d ELSE o[1]

Ok == <<"Ok">>

Err(msg) == <<"Err", msg>>

MsgMissingDimension == "Width or height required when preserving aspect ratio."

(***************************************************************************)
(* The dimension plan of resize_image, lib.rs:44-59.                       *)
(***************************************************************************)
\* lib.rs:46
AspectHeight(width, orig_width, orig_height) ==
  F64RoundAsU32(F64MulU32(F64DivU32(width, orig_width), orig_height))

\* lib.rs:49
AspectWidth(height, orig_width, orig_height) ==
  F64RoundAsU32(F64MulU32(F64DivU32(height, orig_height), orig_width))

PlanDimensions(orig_width, orig_height, opts) ==
  IF opts.keep_aspect_ratio
  THEN IF opts.width # None
       THEN <<"Ok", opts.width[1], AspectHeight(opts.width[1], orig_width, orig_height)>>
       ELSE IF opts.height # None
       THEN <<"Ok", AspectWidth(opts.height[1], orig_width, orig_height), opts.height[1]>>
       ELSE Err(MsgMissingDimension)
  ELSE <<"Ok", UnwrapOr(opts.width, orig_width), UnwrapOr(opts.height, orig_height)>>


(***************************************************************************)
(* The file system and the libraries resize_image calls.  A path is        *)
(* <<folder, name>>; a file's content is one of the classes below, which   *)
(* decide what infer::get_from_path and image::open return for it.         *)
(***************************************************************************)
MaxEntries == 2

Names == 1..MaxEntries

InputFolder == "in"

Folders == {"in", "out"}

Paths == Folders \X Names

Absent == "absent"

\* contents a file of the input folder may have
SourceContents == {"unreadable", "txt", "pdf", "png", "png_corrupt", "png_bomb"}

\* infer::get_from_path, lib.rs:29: Err on a read failure, Ok(None) when no
\* signature matches, Ok(Some(mime)) otherwise
Sniff(content) ==
  CASE content \in {"unreadable", Absent} -> <<"Err">>
    [] content \in {"txt", "old"} -> <<"Ok", None>>
    [] content = "pdf" -> <<"Ok", Some("application/pdf")>>
    [] OTHER -> <<"Ok", Some("image/png")>>

\* lib.rs:33
SupportedMimes == {"image/png", "image/jpeg", "image/gif", "image/webp"}

\* image::open and img.dimensions(), lib.rs:41-42
Decode(content) ==
  CASE content = "png" -> <<"Ok", 4, 2>>
    [] content = "resized" -> <<"Ok", 2, 1>>
    [] content = "png_bomb" -> <<"Panic">>
    [] OTHER -> <<"Err">>

MsgReadFile == "Error reading file"

MsgUndetermined == "Could not determine file type"

MsgUnsupported == "Unsupported format"

MsgOpen == "Error opening image"

MsgSave == "Error saving image"

\* a variant of ResizeImage: the detected type is not tested against the
\* supported types
ResizeImageAnyType(content, saveOk, opts) ==
  LET sn == Sniff(content)
  IN IF sn[1] = "Err"
     THEN [ret |-> Err(MsgReadFile), calls |-> <<"sniff">>, wrote |-> FALSE]
     ELSE IF sn[2] = None
     THEN [ret |-> Err(MsgUndetermined), calls |-> <<"sniff">>, wrote |-> FALSE]
     ELSE LET img == Decode(content)
          IN IF img[1] = "Panic"
             THEN [ret |-> <<"Panic">>, calls |-> <<"sniff", "open">>, wrote |-> FALSE]
             ELSE IF img[1] = "Err"
             THEN [ret |-> Err(MsgOpen), calls |-> <<"sniff", "open">>, wrote |-> FALSE]
             ELSE LET plan == PlanDimensions(img[2], img[3], opts)
                  IN IF plan[1] = "Err"
                     THEN [ret |-> plan, calls |-> <<"sniff", "open">>, wrote |-> FALSE]
                     ELSE IF saveOk
                     THEN [ret |-> Ok, calls |-> <<"sniff", "open", "resize", "save">>,
                           wrote |-> TRUE]
                     ELSE [ret |-> Err(MsgSave),
                           calls |-> <<"sniff", "open", "resize", "save">>,
                           wrote |-> FALSE]

(***************************************************************************)
(* resize_image, lib.rs:23-77, on a source of the given content; saveOk is *)
(* whether resized_img.save succeeds.  calls lists the library calls made, *)
(* in order; wrote tells whether the destination was written.              *)
(***************************************************************************)
ResizeImage(content, saveOk, opts) ==
  LET sn == Sniff(content)
  IN IF sn[1] = "Err"
     THEN [ret |-> Err(MsgReadFile), calls |-> <<"sniff">>, wrote |-> FALSE]
     ELSE IF sn[2] = None
     THEN [ret |-> Err(MsgUndetermined), calls |-> <<"sniff">>, wrote |-> FALSE]
     ELSE IF sn[2][1] \notin SupportedMimes
     THEN [ret |-> Err(MsgUnsupported), calls |-> <<"sniff">>, wrote |-> FALSE]
     ELSE LET img == Decode(content)
          IN IF img[1] = "Panic"
             THEN [ret |-> <<"Panic">>, calls |-> <<"sniff", "open">>, wrote |-> FALSE]
             ELSE IF img[1] = "Err"
             THEN [ret |-> Err(MsgOpen), calls |-> <<"sniff", "open">>, wrote |-> FALSE]
             ELSE LET plan == PlanDimensions(img[2], img[3], opts)
                  IN IF plan[1] = "Err"
                     THEN [ret |-> plan, calls |-> <<"sniff", "open">>, wrote |-> FALSE]
                     ELSE IF saveOk
                     THEN [ret |-> Ok, calls |-> <<"sniff", "open", "resize", "save">>,
                           wrote |-> TRUE]
                     ELSE [ret |-> Err(MsgSave),
                           calls |-> <<"sniff", "open", "resize", "save">>,
                           wrote |-> FALSE]

(***************************************************************************)
(* process_images, lib.rs:79-173.                                          *)
(***************************************************************************)
\* the extensions the modelled directory entries have; "" is no extension
Exts == {"png", "JPG", "txt", ""}

\* a variant of ToLowercase: the extension is compared as written
ToLowercaseNone(e) == e

\* str::to_lowercase, lib.rs:102
ToLowercase(e) == IF e = "JPG" THEN "jpg" ELSE IF e = "PNG" THEN "png" ELSE e

\* lib.rs:88
valid_formats == <<"jpg", "jpeg", "png", "gif", "webp", "PNG">>

Contains(seq, x) == \E i \in 1..Len(seq) : seq[i] = x

\* lib.rs:98-102 and lib.rs:108
ExtAccepted(e) == Contains(valid_formats, ToLowercase(e))

MsgNoInput == "Input folder does not exist"

MsgReadDir == "Error reading directory"

MsgEntry == "Error reading entry"

MsgJoin == "Error joining thread"

MsgSkipped == "File already exists, skipping."

MsgSuccess == "Image resized successfully."

MsgFiltered == "Unsupported file format."

VARIABLES
  options,      \* the ResizeOptions of the call (input_folder is InputFolder)
  inputExists,  \* whether input_folder exists
  readDirOk,    \* whether fs::read_dir succeeds on it
  dir,          \* the entries read_dir yields: dir[i] = [name, ext]
  fs,           \* content of every path
  fs0,          \* fs when process_images was called
  run,          \* 1 in the first call of process_images, 2 in a repeated one
  pc,           \* position of process_images
  idx,          \* next directory entry to enumerate
  handles,      \* the task handles, in spawn order (a handle is a name)
  joined,       \* number of handles awaited so far
  results,      \* the shared Vec behind Arc<Mutex<..>>
  mutex,        \* holder of the Mutex
  ret,          \* what process_images returned
  wpc,          \* position of the task spawned for each name
  wres,         \* the task's local `result` value
  calls,        \* the library calls each task has made inside resize_image
  resized,      \* what resize_image returned to each task (lib.rs:128)
  plan_in,      \* input of a stand-alone run of the dimension plan
  plan_out      \* its result

vars == <<options, inputExists, readDirOk, dir, fs, fs0, run, pc, idx, handles, joined,
          results, mutex, ret, wpc, wres, calls, resized, plan_in, plan_out>>

planVars == <<plan_in, plan_out>>

envVars == <<options, inputExists, readDirOk, dir, fs0, run>>

Free == <<"free">>

HeldByTask(w) == <<"task", w>>

HeldByCoordinator == <<"coordinator">>

SourcePath(name) == <<InputFolder, name>>

\* a variant of OutputPath: the file name of the entry is not used
OutputPathFixed(name) == <<options.output_folder, 1>>

\* lib.rs:111
OutputPath(name) == <<options.output_folder, name>>

NotReturned == <<"running">>


(***************************************************************************)
(* The calls the model explores: the request, the input folder's entries   *)
(* and the contents of the files involved.                                 *)
(***************************************************************************)
\* the requests of the batch model name no width and no height: there the
\* plan only matters by failing or not (its numbers are checked under SpecPlan)
OptionsSet ==
  [output_folder : Folders, width : {None}, height : {None},
   keep_aspect_ratio : BOOLEAN, overwrite : BOOLEAN]

\* what an entry of the input folder may be: its extension, its content and
\* the content of the file of the same name in folder "out"
FileKinds ==
  [ext : {"txt", ""}, content : {"txt"}, dest : {Absent}]
    \cup [ext : {"png"}, content : SourceContents, dest : {Absent}]
    \cup [ext : {"png"}, content : {"png", "pdf", "png_corrupt"}, dest : {"old"}]
    \cup [ext : {"JPG"}, content : {"png"}, dest : {Absent}]

DirOf(kinds) == [i \in DOMAIN kinds |-> [name |-> i, ext |-> kinds[i].ext]]

FsOf(kinds) ==
  [p \in Paths |->
     IF p[2] \notin DOMAIN kinds THEN Absent
     ELSE IF p[1] = InputFolder THEN kinds[p[2]].content
     ELSE kinds[p[2]].dest]

\* the state of a call that has not started, and of no call at all
Fresh(position) ==
  /\ fs0 = fs
  /\ pc = position
  /\ idx = 1
  /\ handles = <<>>
  /\ joined = 0
  /\ results = <<>>
  /\ mutex = Free
  /\ ret = NotReturned
  /\ wpc = [w \in Names |-> "unspawned"]
  /\ wres = [w \in Names |-> <<>>]
  /\ calls = [w \in Names |-> <<>>]
  /\ resized = [w \in Names |-> <<>>]

Init ==
  /\ options \in OptionsSet
  /\ inputExists \in BOOLEAN
  /\ readDirOk \in BOOLEAN
  /\ ~inputExists => ~readDirOk
  /\ \E n \in 0..MaxEntries : \E kinds \in [1..n -> FileKinds] :
       /\ ~readDirOk => n = 0
       \* with the output folder being the input folder, folder "out" is not used
       /\ options.output_folder = InputFolder => \A i \in 1..n : kinds[i].dest = Absent
       /\ dir = DirOf(kinds)
       /\ fs = FsOf(kinds)
  /\ Fresh("check")
  /\ run = 1
  /\ plan_in = <<>>
  /\ plan_out = <<>>

\* a variant of CheckInput: the existence check is left out
CheckInputSkipped ==
  /\ pc = "check"
  /\ pc' = "read_dir"
  /\ UNCHANGED <<envVars, fs, idx, handles, joined, results, mutex, ret, wpc, wres, calls,
                 resized, planVars>>

\* lib.rs:81-86
CheckInput ==
  /\ pc = "check"
  /\ IF inputExists
     THEN pc' = "read_dir" /\ ret' = ret
     ELSE pc' = "returned" /\ ret' = Err(MsgNoInput)
  /\ UNCHANGED <<envVars, fs, idx, handles, joined, results, mutex, wpc, wres, calls, resized,
                 planVars>>

\* a variant of ReadDir: a failing read_dir is taken for an empty folder
ReadDirUnchecked ==
  /\ pc = "read_dir"
  /\ pc' = "enum"
  /\ UNCHANGED <<envVars, fs, idx, handles, joined, results, mutex, ret, wpc, wres, calls,
                 resized, planVars>>

\* lib.rs:88-94
ReadDir ==
  /\ pc = "read_dir"
  /\ IF readDirOk
     THEN pc' = "enum" /\ ret' = ret
     ELSE pc' = "returned" /\ ret' = Err(MsgReadDir)
  /\ UNCHANGED <<envVars, fs, idx, handles, joined, results, mutex, wpc, wres, calls, resized,
                 planVars>>

\* lib.rs:96: reading the next entry fails
EntryError ==
  /\ pc = "enum"
  /\ idx <= Len(dir)
  /\ pc' = "returned"
  /\ ret' = Err(MsgEntry)
  /\ UNCHANGED <<envVars, fs, idx, handles, joined, results, mutex, wpc, wres, calls, resized,
                 planVars>>

\* lib.rs:96-111 and lib.rs:143: an entry with an accepted extension
Spawn ==
  /\ pc = "enum"
  /\ idx <= Len(dir)
  /\ ExtAccepted(dir[idx].ext)
  /\ wpc' = [wpc EXCEPT ![dir[idx].name] = "spawned"]
  /\ handles' = Append(handles, dir[idx].name)
  /\ idx' = idx + 1
  /\ UNCHANGED <<envVars, fs, pc, joined, results, mutex, ret, wres, calls, resized, planVars>>

\* lib.rs:144-152: any other entry; the coordinator takes the mutex
FilterLock ==
  /\ pc = "enum"
  /\ idx <= Len(dir)
  /\ ~ExtAccepted(dir[idx].ext)
  /\ mutex = Free
  /\ mutex' = HeldByCoordinator
  /\ pc' = "filter_push"
  /\ UNCHANGED <<envVars, fs, idx, handles, joined, results, ret, wpc, wres, calls, resized,
                 planVars>>

\* a variant of FilterPush: the outcome is built like a task's outcome
FilterPushWithOutput ==
  /\ pc = "filter_push"
  /\ results' = Append(results, [file |-> SourcePath(dir[idx].name),
                                 output_file |-> OutputPath(dir[idx].name),
                                 status |-> "unsupported_format",
                                 message |-> MsgFiltered])
  /\ mutex' = Free
  /\ idx' = idx + 1
  /\ pc' = "enum"
  /\ UNCHANGED <<envVars, fs, handles, joined, ret, wpc, wres, calls, resized, planVars>>

\* lib.rs:152: push, then the guard is dropped
FilterPush ==
  /\ pc = "filter_push"
  /\ results' = Append(results, [file |-> SourcePath(dir[idx].name),
                                 status |-> "unsupported_format",
                                 message |-> MsgFiltered])
  /\ mutex' = Free
  /\ idx' = idx + 1
  /\ pc' = "enum"
  /\ UNCHANGED <<envVars, fs, handles, joined, ret, wpc, wres, calls, resized, planVars>>

\* lib.rs:93: the directory iterator is exhausted
EnumDone ==
  /\ pc = "enum"
  /\ idx > Len(dir)
  /\ pc' = "join"
  /\ UNCHANGED <<envVars, fs, idx, handles, joined, results, mutex, ret, wpc, wres,
                 calls, resized, planVars>>

\* a variant of JoinReady: the handle is not awaited
JoinReadyNoWait(h) == wpc[h] \in {"spawned", "resize", "ready", "locked", "done", "panicked"}

\* lib.rs:158: the await of a handle completes once its task has ended
JoinReady(h) == wpc[h] \in {"done", "panicked"}

\* lib.rs:156-160
Join ==
  /\ pc = "join"
  /\ joined < Len(handles)
  /\ JoinReady(handles[joined + 1])
  /\ IF wpc[handles[joined + 1]] = "panicked"
     THEN pc' = "returned" /\ ret' = Err(MsgJoin) /\ joined' = joined
     ELSE pc' = pc /\ ret' = ret /\ joined' = joined + 1
  /\ UNCHANGED <<envVars, fs, idx, handles, results, mutex, wpc, wres, calls, resized, planVars>>

\* lib.rs:162-172
Report ==
  /\ pc = "join"
  /\ joined = Len(handles)
  /\ mutex = Free
  /\ ret' = <<"Ok", [output_folder |-> options.output_folder, results |-> results]>>
  /\ pc' = "returned"
  /\ UNCHANGED <<envVars, fs, idx, handles, joined, results, mutex, wpc, wres, calls, resized,
                 planVars>>

\* a variant of WorkerCheck: the overwrite flag is read the wrong way round
WorkerCheckInverted(w) ==
  /\ wpc[w] = "spawned"
  /\ IF fs[OutputPath(w)] # Absent /\ options.overwrite
     THEN /\ wres' = [wres EXCEPT ![w] = [file |-> SourcePath(w),
                                          output_file |-> OutputPath(w),
                                          status |-> "skipped",
                                          message |-> MsgSkipped]]
          /\ wpc' = [wpc EXCEPT ![w] = "ready"]
     ELSE /\ wres' = [wres EXCEPT ![w] = [file |-> SourcePath(w),
                                          output_file |-> OutputPath(w),
                                          status |-> "unknown",
                                          message |-> ""]]
          /\ wpc' = [wpc EXCEPT ![w] = "resize"]
  /\ UNCHANGED <<envVars, fs, pc, idx, handles, joined, results, mutex, ret, calls, resized,
                 planVars>>

\* a variant of WorkerCheck: the destination is not checked
WorkerCheckNoSkip(w) ==
  /\ wpc[w] = "spawned"
  /\ wres' = [wres EXCEPT ![w] = [file |-> SourcePath(w),
                                   output_file |-> OutputPath(w),
                                   status |-> "unknown",
                                   message |-> ""]]
  /\ wpc' = [wpc EXCEPT ![w] = "resize"]
  /\ UNCHANGED <<envVars, fs, pc, idx, handles, joined, results, mutex, ret, calls, resized,
                 planVars>>

\* lib.rs:111-127: the task computes its destination and checks it
WorkerCheck(w) ==
  /\ wpc[w] = "spawned"
  /\ IF fs[OutputPath(w)] # Absent /\ ~options.overwrite
     THEN /\ wres' = [wres EXCEPT ![w] = [file |-> SourcePath(w),
                                          output_file |-> OutputPath(w),
                                          status |-> "skipped",
                                          message |-> MsgSkipped]]
          /\ wpc' = [wpc EXCEPT ![w] = "ready"]
     ELSE /\ wres' = [wres EXCEPT ![w] = [file |-> SourcePath(w),
                                          output_file |-> OutputPath(w),
                                          status |-> "unknown",
                                          message |-> ""]]
          /\ wpc' = [wpc EXCEPT ![w] = "resize"]
  /\ UNCHANGED <<envVars, fs, pc, idx, handles, joined, results, mutex, ret, calls, resized,
                 planVars>>

\* a variant of ResultOf: the Err arm forgets to set the status
ResultOfStatusLeft(r, res) ==
  IF r.ret = Ok
  THEN [res EXCEPT !.status = "success", !.message = MsgSuccess]
  ELSE [res EXCEPT !.message = r.ret[2]]

\* lib.rs:128-137: the outcome of resize_image becomes the task's result
ResultOf(r, res) ==
  IF r.ret = Ok
  THEN [res EXCEPT !.status = "success", !.message = MsgSuccess]
  ELSE [res EXCEPT !.status = "error", !.message = r.ret[2]]

\* a variant of WorkerResize: the destination is created before resize_image
\* has got to the save
WorkerResizeWritesFirst(w) ==
  /\ wpc[w] = "resize"
  /\ \E saveOk \in BOOLEAN :
       LET r == ResizeImage(fs[SourcePath(w)], saveOk, options)
       IN /\ calls' = [calls EXCEPT ![w] = r.calls]
          /\ resized' = [resized EXCEPT ![w] = r.ret]
          /\ fs' = [fs EXCEPT ![OutputPath(w)] = "resized"]
          /\ IF r.ret = <<"Panic">>
             THEN wpc' = [wpc EXCEPT ![w] = "panicked"] /\ wres' = wres
             ELSE /\ wpc' = [wpc EXCEPT ![w] = "ready"]
                  /\ wres' = [wres EXCEPT ![w] = ResultOf(r, wres[w])]
  /\ UNCHANGED <<envVars, pc, idx, handles, joined, results, mutex, ret, planVars>>

WorkerResize(w) ==
  /\ wpc[w] = "resize"
  /\ \E saveOk \in BOOLEAN :
       LET r == ResizeImage(fs[SourcePath(w)], saveOk, options)
       IN /\ calls' = [calls EXCEPT ![w] = r.calls]
          /\ resized' = [resized EXCEPT ![w] = r.ret]
          /\ fs' = IF r.wrote THEN [fs EXCEPT ![OutputPath(w)] = "resized"] ELSE fs
          /\ IF r.ret = <<"Panic">>
             THEN wpc' = [wpc EXCEPT ![w] = "panicked"] /\ wres' = wres
             ELSE /\ wpc' = [wpc EXCEPT ![w] = "ready"]
                  /\ wres' = [wres EXCEPT ![w] = ResultOf(r, wres[w])]
  /\ UNCHANGED <<envVars, pc, idx, handles, joined, results, mutex, ret, planVars>>

\* a variant of WorkerLock: the vector is not behind a mutex
WorkerLockUnguarded(w) ==
  /\ wpc[w] = "ready"
  /\ mutex' = HeldByTask(w)
  /\ wpc' = [wpc EXCEPT ![w] = "locked"]
  /\ UNCHANGED <<envVars, fs, pc, idx, handles, joined, results, ret, wres, calls, resized,
                 planVars>>

\* lib.rs:140: results.lock()
WorkerLock(w) ==
  /\ wpc[w] = "ready"
  /\ mutex = Free
  /\ mutex' = HeldByTask(w)
  /\ wpc' = [wpc EXCEPT ![w] = "locked"]
  /\ UNCHANGED <<envVars, fs, pc, idx, handles, joined, results, ret, wres, calls, resized,
                 planVars>>

\* a variant of WorkerPush: the result is pushed twice
WorkerPushTwice(w) ==
  /\ wpc[w] = "locked"
  /\ results' = results \o <<wres[w], wres[w]>>
  /\ mutex' = Free
  /\ wpc' = [wpc EXCEPT ![w] = "done"]
  /\ UNCHANGED <<envVars, fs, pc, idx, handles, joined, ret, wres, calls, resized, planVars>>

\* a variant of WorkerPush: the guard is kept after the push
WorkerPushKeepsLock(w) ==
  /\ wpc[w] = "locked"
  /\ results' = Append(results, wres[w])
  /\ wpc' = [wpc EXCEPT ![w] = "done"]
  /\ UNCHANGED <<envVars, fs, pc, idx, handles, joined, mutex, ret, wres, calls, resized,
                 planVars>>

\* lib.rs:140: push(result), then the guard is dropped and the task ends
WorkerPush(w) ==
  /\ wpc[w] = "locked"
  /\ results' = Append(results, wres[w])
  /\ mutex' = Free
  /\ wpc' = [wpc EXCEPT ![w] = "done"]
  /\ UNCHANGED <<envVars, fs, pc, idx, handles, joined, ret, wres, calls, resized, planVars>>

Next ==
  \/ CheckInput
  \/ ReadDir
  \/ EntryError
  \/ Spawn
  \/ FilterLock
  \/ FilterPush
  \/ EnumDone
  \/ Join
  \/ Report
  \/ \E w \in Names : WorkerCheck(w)
  \/ \E w \in Names : WorkerResize(w)
  \/ \E w \in Names : WorkerLock(w)
  \/ \E w \in Names : WorkerPush(w)

Spec == Init /\ [][Next]_vars


(***************************************************************************)
(* Fair scheduling: the coordinator's future and every spawned task are    *)
(* polled by the runtime for as long as they can make a step.  Whether an  *)
(* entry of the directory fails to be read is up to the file system, so    *)
(* EntryError is under no fairness condition.                              *)
(***************************************************************************)
CoordinatorStep ==
  CheckInput \/ ReadDir \/ Spawn \/ FilterLock \/ FilterPush \/ EnumDone \/ Join \/ Report

TaskStep(w) == WorkerCheck(w) \/ WorkerResize(w) \/ WorkerLock(w) \/ WorkerPush(w)

Fairness == WF_vars(CoordinatorStep) /\ \A w \in Names : WF_vars(TaskStep(w))

\* the batches of the fair runs: a file is filtered, resized, skipped, or its
\* decoding panics
FairContents == {"txt", "png", "png_bomb"}

InitFair ==
  /\ Init
  /\ inputExists
  /\ readDirOk
  /\ options.output_folder = "out"
  /\ ~options.keep_aspect_ratio
  /\ \A i \in 1..Len(dir) :
       /\ dir[i].ext \in {"txt", "png"}
       /\ fs[SourcePath(dir[i].name)] \in FairContents

SpecFair == InitFair /\ [][Next]_vars /\ Fairness

(***************************************************************************)
(* The same batch run twice with overwrite = false: once the first call    *)
(* has returned and its tasks have ended, process_images is called again   *)
(* with the same options on the file system the first call left.           *)
(***************************************************************************)
InitTwice == Init /\ inputExists /\ readDirOk /\ ~options.overwrite

Rerun ==
  /\ run = 1
  /\ pc = "returned"
  /\ \A w \in Names : wpc[w] \in {"unspawned", "done", "panicked"}
  /\ run' = 2
  /\ fs0' = fs
  /\ pc' = "check"
  /\ idx' = 1
  /\ handles' = <<>>
  /\ joined' = 0
  /\ results' = <<>>
  /\ ret' = NotReturned
  /\ wpc' = [w \in Names |-> "unspawned"]
  /\ wres' = [w \in Names |-> <<>>]
  /\ calls' = [w \in Names |-> <<>>]
  /\ resized' = [w \in Names |-> <<>>]
  /\ UNCHANGED <<options, inputExists, readDirOk, dir, fs, mutex, planVars>>

NextTwice == Next \/ Rerun

SpecTwice == InitTwice /\ [][NextTwice]_vars

(***************************************************************************)
(* The dimension plan on its own: lib.rs:44-59 applied to an original size *)
(* and a request.                                                          *)
(***************************************************************************)
MaxDim == 3

MaxReq == 3

OrigSizes ==
  ((1..MaxDim) \X (1..MaxDim))
    \cup {<<1000, 500>>, <<333, 100>>, <<14, 21>>, <<21, 14>>, <<22, 11>>}

Requested == {None} \cup {Some(v) : v \in (0..MaxReq) \cup {15, 17, 50, 200}}

PlanInputs ==
  [orig : OrigSizes,
   opts : [width : Requested, height : Requested, keep_aspect_ratio : BOOLEAN]]

PlanInit ==
  /\ plan_in \in PlanInputs
  /\ plan_out = <<>>
  /\ options = [output_folder |-> "out", width |-> None, height |-> None,
                keep_aspect_ratio |-> FALSE, overwrite |-> FALSE]
  /\ inputExists = FALSE
  /\ readDirOk = FALSE
  /\ dir = <<>>
  /\ fs = [p \in Paths |-> Absent]
  /\ Fresh("plan")
  /\ run = 1

PlanStep ==
  /\ pc = "plan"
  /\ plan_out' = PlanDimensions(plan_in.orig[1], plan_in.orig[2], plan_in.opts)
  /\ pc' = "planned"
  /\ UNCHANGED <<envVars, fs, idx, handles, joined, results, mutex, ret, wpc, wres, calls, resized,
                 plan_in>>

PlanNext == PlanStep

SpecPlan == PlanInit /\ [][PlanNext]_vars


(***************************************************************************)
(* Properties.                                                             *)
(***************************************************************************)
ReturnedOk == pc = "returned" /\ ret[1] = "Ok"

\* the positions of the outcomes recorded for a directory entry
OutcomesOf(rs, name) == {k \in 1..Len(rs) : rs[k].file = SourcePath(name)}

\* the task of w has been past its destination check
Checked(w) == wpc[w] \in {"resize", "ready", "locked", "done", "panicked"}

\* C1: when process_images returns Ok, the report's results hold exactly one
\* outcome for every directory entry (dispatched or filtered by extension),
\* none missing and none twice, for every interleaving and any number of
\* entries.
C1_OneOutcomePerEntry ==
  ReturnedOk =>
    /\ Len(ret[2].results) = Len(dir)
    /\ \A i \in 1..Len(dir) : Cardinality(OutcomesOf(ret[2].results, dir[i].name)) = 1

C1_Witness ==
  /\ ReturnedOk
  /\ Len(dir) >= 2
  /\ Len(handles) >= 1
  /\ Len(handles) < Len(dir)

\* C2: when the input folder does not exist, process_images returns the
\* existence error with no worker spawned, no outcome recorded and no file
\* or folder read or written.
C2_MissingInputFailsFirst ==
  ~inputExists =>
    /\ pc \in {"check", "returned"}
    /\ pc = "returned" => ret = Err(MsgNoInput)
    /\ handles = <<>>
    /\ results = <<>>
    /\ fs = fs0
    /\ \A w \in Names : wpc[w] = "unspawned" /\ calls[w] = <<>>

C2_Witness == ~inputExists /\ pc = "returned" /\ ret = Err(MsgNoInput)

\* C3: the Ok report is built only after every spawned worker has finished
\* and pushed its outcome; no spawned worker is still running then.
C3_ReportAfterJoin ==
  ReturnedOk =>
    \A w \in Names :
      \/ wpc[w] = "unspawned"
      \/ wpc[w] = "done" /\ OutcomesOf(ret[2].results, w) # {}

C3_Witness ==
  /\ ReturnedOk
  /\ Len(handles) >= 2
  /\ \A i \in 1..Len(handles) : wpc[handles[i]] = "done"

\* C4: an Err of resize_image for one file is recorded as that file's
\* outcome, with status error and the error's message, and when the batch
\* returns Ok the report holds it along with an outcome for every other file.
C4_FailureIsAnOutcome ==
  /\ \A w \in Names :
       (wpc[w] = "done" /\ resized[w] # <<>> /\ resized[w][1] = "Err") =>
         /\ Cardinality(OutcomesOf(results, w)) = 1
         /\ \A k \in OutcomesOf(results, w) :
              results[k].status = "error" /\ results[k].message = resized[w][2]
  /\ ReturnedOk =>
       \A w \in Names :
         (resized[w] # <<>> /\ resized[w][1] = "Err") =>
           /\ \E k \in OutcomesOf(ret[2].results, w) :
                /\ ret[2].results[k].status = "error"
                /\ ret[2].results[k].message = resized[w][2]
           /\ \A i \in 1..Len(dir) : OutcomesOf(ret[2].results, dir[i].name) # {}

C4_Witness ==
  /\ ReturnedOk
  /\ \E v, w \in Names :
       /\ resized[v] # <<>> /\ resized[v][1] = "Err"
       /\ resized[w] = Ok

\* C5 as stated: once the existence check has passed, every return is Ok.
C5_OnlyExistenceCheckFails == (pc = "returned" /\ inputExists) => ret[1] = "Ok"

\* C5, amended: process_images returns an error in exactly four cases (the
\* input folder does not exist, read_dir fails, reading a directory entry
\* fails, the join of a panicked task fails) and Ok in every other return.
C5_BatchErrors ==
  pc = "returned" =>
    \/ ret = Err(MsgNoInput) /\ ~inputExists
    \/ ret = Err(MsgReadDir) /\ inputExists /\ ~readDirOk
    \/ ret = Err(MsgEntry) /\ readDirOk /\ idx <= Len(dir)
    \/ /\ ret = Err(MsgJoin)
       /\ joined < Len(handles)
       /\ wpc[handles[joined + 1]] = "panicked"
    \/ /\ ret[1] = "Ok"
       /\ inputExists
       /\ readDirOk
       /\ \A w \in Names : wpc[w] # "panicked"

C5_Witness ==
  /\ pc = "returned"
  /\ ret = Err(MsgJoin)
  /\ \E w \in Names : resized[w] # <<>> /\ resized[w][1] = "Err"

\* C6: a dispatched file whose destination exists while overwrite is false
\* gets a skipped outcome without resize_image being called: no sniff, no
\* decode, no write, the destination unchanged, whatever the source holds.
C6_SkipTouchesNothing ==
  \A w \in Names :
    (Checked(w) /\ fs0[OutputPath(w)] # Absent /\ ~options.overwrite) =>
      /\ wpc[w] \in {"ready", "locked", "done"}
      /\ wres[w].status = "skipped"
      /\ calls[w] = <<>>
      /\ resized[w] = <<>>
      /\ fs[OutputPath(w)] = fs0[OutputPath(w)]
      /\ wpc[w] = "done" =>
           \A k \in OutcomesOf(results, w) : results[k].status = "skipped"

C6_Witness ==
  \E w \in Names :
    /\ wpc[w] = "done"
    /\ fs0[OutputPath(w)] = "old"
    /\ fs0[SourcePath(w)] = "png_corrupt"
    /\ ~options.overwrite
    /\ OutcomesOf(results, w) # {}

\* the file's content is sniffed, but not as a supported image type
SniffedUnsupported(content) ==
  /\ Sniff(content)[1] = "Ok"
  /\ \/ Sniff(content)[2] = None
     \/ Sniff(content)[2][1] \notin SupportedMimes

\* C7: a file that passes the extension filter and whose content is not
\* sniffed as png, jpeg, gif or webp gets the status unsupported_format, not
\* an error status.
C7_SpoofedIsUnsupportedFormat ==
  \A k \in 1..Len(results) :
    (/\ "output_file" \in DOMAIN results[k]
     /\ results[k].status # "skipped"
     /\ SniffedUnsupported(fs0[results[k].file])) =>
      results[k].status = "unsupported_format"

\* the file's content is sniffed as a supported image type
SniffedSupported(content) ==
  /\ Sniff(content)[1] = "Ok"
  /\ Sniff(content)[2] # None
  /\ Sniff(content)[2][1] \in SupportedMimes

\* C8: with keep_aspect_ratio and neither width nor height, every file that
\* is processed and passes sniffing ends with the missing-dimension error,
\* and its decode is not attempted.
C8_MissingDimensionBeforeDecode ==
  (options.keep_aspect_ratio /\ options.width = None /\ options.height = None) =>
    \A w \in Names :
      (calls[w] # <<>> /\ SniffedSupported(fs0[SourcePath(w)])) =>
        /\ \A i \in 1..Len(calls[w]) : calls[w][i] # "open"
        /\ resized[w] = Err(MsgMissingDimension)

\* round(n / d), half away from zero, for n >= 0 and d > 0
RoundHalfAway(n, d) == (2 * n + d) \div (2 * d)

Planned == pc = "planned"

\* C9: in aspect-preserving mode, with the width given the height is
\* round(width * originalHeight / originalWidth) and the width unchanged;
\* with only the height given the width is
\* round(height * originalWidth / originalHeight) and the height unchanged.
C9_AspectFormula ==
  (Planned /\ plan_in.opts.keep_aspect_ratio) =>
    LET ow == plan_in.orig[1]
        oh == plan_in.orig[2]
        w == plan_in.opts.width
        h == plan_in.opts.height
    IN /\ w # None => plan_out = <<"Ok", w[1], RoundHalfAway(w[1] * oh, ow)>>
       /\ (w = None /\ h # None) => plan_out = <<"Ok", RoundHalfAway(h[1] * ow, oh), h[1]>>

\* C10: in free-form mode the planned width is the requested width, or the
\* original width when none is requested, and likewise the height; an absent
\* dimension is never planned as zero.
C10_FreeFormDefaults ==
  (Planned /\ ~plan_in.opts.keep_aspect_ratio) =>
    LET w == plan_in.opts.width
        h == plan_in.opts.height
    IN /\ plan_out[1] = "Ok"
       /\ plan_out[2] = (IF w = None THEN plan_in.orig[1] ELSE w[1])
       /\ plan_out[3] = (IF h = None THEN plan_in.orig[2] ELSE h[1])
       /\ w = None => plan_out[2] # 0
       /\ h = None => plan_out[3] # 0

C10_Witness ==
  /\ Planned
  /\ ~plan_in.opts.keep_aspect_ratio
  /\ plan_in.opts.width = None
  /\ plan_in.opts.height = Some(3)
  /\ plan_out = <<"Ok", plan_in.orig[1], 3>>


\* the names of the entries that are dispatched to a task
Dispatched == {dir[i].name : i \in {k \in 1..Len(dir) : ExtAccepted(dir[k].ext)}}

\* C11 as stated: after the second run with overwrite=false the destination
\* files are what they were after the first run, and every outcome of the
\* second run for a dispatched file is skipped.
C11_SecondRunAllSkipped ==
  (run = 2 /\ ReturnedOk) =>
    /\ fs = fs0
    /\ \A k \in 1..Len(ret[2].results) :
         "output_file" \in DOMAIN ret[2].results[k] => ret[2].results[k].status = "skipped"

\* C11, amended: in the second run with overwrite=false every dispatched file
\* whose destination exists after the first run is skipped and its
\* destination is left as the first run left it; when that is so for every
\* dispatched file, the second run changes no file and all its outcomes for
\* dispatched files are skipped.
C11_SecondRunSkipsExisting ==
  run = 2 =>
    /\ \A w \in Names :
         (Checked(w) /\ fs0[OutputPath(w)] # Absent) =>
           /\ wres[w].status = "skipped"
           /\ fs[OutputPath(w)] = fs0[OutputPath(w)]
    /\ (\A w \in Dispatched : fs0[OutputPath(w)] # Absent) =>
         /\ fs = fs0
         /\ ReturnedOk =>
              \A k \in 1..Len(ret[2].results) :
                "output_file" \in DOMAIN ret[2].results[k] =>
                  ret[2].results[k].status = "skipped"

C11_Witness ==
  /\ run = 2
  /\ ReturnedOk
  /\ options.output_folder = "out"
  /\ \A w \in Dispatched : fs0[OutputPath(w)] # Absent
  /\ \E w \in Dispatched : fs0[OutputPath(w)] = "resized" /\ wres[w].status = "skipped"


\* the spellings, among the extensions of the model, of jpg, jpeg, png, gif
\* and webp in any letter case
AllowedSpellings == {"jpg", "JPG", "jpeg", "JPEG", "png", "PNG", "gif", "GIF", "webp", "WEBP"}

\* the coordinator has dealt with the i-th directory entry
Enumerated(i) == i < idx

\* C12: an entry is dispatched to a task exactly when its extension is, in any
\* letter case, one of jpg, jpeg, png, gif, webp; every other entry, one
\* without extension included, has its unsupported_format outcome recorded by
\* the coordinator during the enumeration, with no task spawned and no
\* library call made for it.
C12_DispatchByExtension ==
  \A i \in 1..Len(dir) :
    Enumerated(i) =>
      LET name == dir[i].name
          filtered == {k \in OutcomesOf(results, name) :
                         results[k].status = "unsupported_format"}
      IN  IF dir[i].ext \in AllowedSpellings
          THEN /\ wpc[name] # "unspawned"
               /\ Contains(handles, name)
               /\ filtered = {}
          ELSE /\ wpc[name] = "unspawned"
               /\ ~Contains(handles, name)
               /\ calls[name] = <<>>
               /\ Cardinality(filtered) = 1
               /\ OutcomesOf(results, name) = filtered

C12_Witness ==
  /\ ReturnedOk
  /\ \E i, j \in 1..Len(dir) :
       /\ dir[i].ext = "JPG" /\ wpc[dir[i].name] = "done"
       /\ dir[j].ext = "" /\ wpc[dir[j].name] = "unspawned"
       /\ \E k \in OutcomesOf(ret[2].results, dir[j].name) :
            ret[2].results[k].status = "unsupported_format"


StoredStatuses == {"success", "skipped", "error", "unsupported_format"}

\* C13: in every reachable state every outcome in the result vector has one
\* of the statuses success, skipped, error, unsupported_format (the initial
\* "unknown" is never stored), and it has the output_file field exactly when
\* a dispatched task pushed it.
C13_StoredOutcomes ==
  \A k \in 1..Len(results) :
    LET name == results[k].file[2]
    IN  /\ results[k].status \in StoredStatuses
        /\ ("output_file" \in DOMAIN results[k]) <=> (wpc[name] = "done")
        /\ wpc[name] = "done" =>
             /\ results[k].output_file = OutputPath(name)
             /\ results[k].status # "unsupported_format"
        /\ wpc[name] # "done" =>
             /\ wpc[name] = "unspawned"
             /\ results[k].status = "unsupported_format"

C13_Witness ==
  /\ Len(results) = 2
  /\ "output_file" \in DOMAIN results[1]
  /\ results[1].status = "error"
  /\ calls[results[1].file[2]] # <<>>
  /\ "output_file" \notin DOMAIN results[2]


\* the parties that are between taking the mutex and the end of their push
InPush ==
  {HeldByTask(w) : w \in {v \in Names : wpc[v] = "locked"}}
    \cup (IF pc = "filter_push" THEN {HeldByCoordinator} ELSE {})

\* the task of w has ended, by returning or by a panic
Ended(w) == wpc[w] \in {"done", "panicked"}

MutualExclusion ==
  /\ Cardinality(InPush) <= 1
  /\ \A p \in InPush : mutex = p
  /\ InPush = {} => mutex = Free

Workers == {handles[i] : i \in 1..Len(handles)}

\* C15: within one batch no two tasks share a file path: the destination of
\* one task is neither the source nor the destination of another, whatever
\* the input and output folders, the same folder for both included; and a
\* file that changes is the destination of the task that is resizing.
C15_DisjointPaths ==
  /\ \A i, j \in 1..Len(handles) : i # j => handles[i] # handles[j]
  /\ \A w, v \in Workers :
       w # v => /\ OutputPath(w) # SourcePath(v)
                /\ OutputPath(w) # OutputPath(v)
  /\ \A p \in Paths :
       fs[p] # fs0[p] =>
         /\ Cardinality({w \in Workers : OutputPath(w) = p}) = 1
         /\ \A w \in Workers : OutputPath(w) = p => resized[w] = Ok

C15_Witness ==
  /\ options.output_folder = InputFolder
  /\ options.overwrite
  /\ Cardinality(Workers) = 2
  /\ \A w \in Workers : wpc[w] = "done" /\ fs[OutputPath(w)] # fs0[OutputPath(w)]


EnumerationFinished == pc = "join"

PositionsOf(w, call) == {k \in 1..Len(calls[w]) : calls[w][k] = call}

\* C17: within resize_image the sniff comes before the decode, and the decode
\* is not attempted when the sniff failed to read the file, determined no
\* type, or detected a type other than png, jpeg, gif, webp.
C17_SniffBeforeDecode ==
  \A w \in Names :
    /\ \A k \in PositionsOf(w, "open") : \E j \in PositionsOf(w, "sniff") : j < k
    /\ calls[w] # <<>> => calls[w][1] = "sniff"
    /\ (calls[w] # <<>> /\ ~SniffedSupported(fs0[SourcePath(w)])) =>
         /\ PositionsOf(w, "open") = {}
         /\ resized[w][1] = "Err"
    /\ (calls[w] # <<>> /\ SniffedSupported(fs0[SourcePath(w)])) =>
         PositionsOf(w, "open") # {}

C17_Witness ==
  \E w, v \in Names :
    /\ calls[w] = <<"sniff">> /\ fs0[SourcePath(w)] = "pdf"
    /\ Len(calls[v]) >= 2 /\ calls[v][2] = "open"


\* keep_aspect_ratio with both dimensions requested
BothRequested ==
  /\ Planned
  /\ plan_in.opts.keep_aspect_ratio
  /\ plan_in.opts.width # None
  /\ plan_in.opts.height # None

\* with both dimensions requested the plan is the plan of the same request
\* without the height
RequestedHeightIgnored ==
  BothRequested =>
    plan_out = PlanDimensions(plan_in.orig[1], plan_in.orig[2],
                              [plan_in.opts EXCEPT !.height = None])

\* C18: with keep_aspect_ratio and both width and height requested the width
\* takes precedence: the planned width is the requested width, the planned
\* height is round(width * originalHeight / originalWidth), and the requested
\* height has no effect on the plan.
C18_WidthTakesPrecedence ==
  BothRequested =>
    /\ plan_out[1] = "Ok"
    /\ plan_out[2] = plan_in.opts.width[1]
    /\ plan_out[3] = RoundHalfAway(plan_in.opts.width[1] * plan_in.orig[2], plan_in.orig[1])
    /\ RequestedHeightIgnored


\* C19: when process_images has returned an error after spawning at least one
\* task (an entry of the directory could not be read, or a join failed), no
\* task it spawned is still running, so no destination is written after the
\* caller has the error.
C19_NoTaskOutlivesError ==
  (pc = "returned" /\ ret[1] = "Err" /\ Workers # {}) =>
    \A w \in Workers : Ended(w)


\* resize_image of the task of w has returned an error without calling save
FailedBeforeSave(w) ==
  /\ calls[w] # <<>>
  /\ resized[w][1] = "Err"
  /\ PositionsOf(w, "save") = {}

\* C20: with overwrite=true and an existing destination, a task whose
\* resize_image fails before the save (the sniff fails or rejects the file,
\* the decode fails, or a dimension is missing) leaves the destination as it
\* was, and the status success is recorded only when the save has been called
\* last and has returned without error.
C20_FailureKeepsDestination ==
  \A w \in Names :
    /\ (options.overwrite /\ fs0[OutputPath(w)] # Absent /\ FailedBeforeSave(w)) =>
         /\ fs[OutputPath(w)] = fs0[OutputPath(w)]
         /\ wpc[w] \in {"ready", "locked", "done"}
         /\ wres[w].status = "error"
    /\ \A k \in OutcomesOf(results, w) :
         results[k].status = "success" =>
           /\ calls[w] = <<"sniff", "open", "resize", "save">>
           /\ resized[w] = Ok
           /\ fs[OutputPath(w)] = "resized"
    /\ (wpc[w] \in {"ready", "locked", "done"} /\ wres[w].status = "success") =>
         (resized[w] = Ok /\ PositionsOf(w, "save") # {})

C20_Witness ==
  /\ options.overwrite
  /\ \E w \in Names :
       /\ fs0[OutputPath(w)] = "old"
       /\ FailedBeforeSave(w)
       /\ calls[w] = <<"sniff", "open">>
       /\ wpc[w] = "done"
       /\ fs[OutputPath(w)] = "old"

====
